---- MODULE Spec2Model ----
(***************************************************************************)
(* leetcode-analyzer: the analysis path between the page and the AI        *)
(* providers.                                                              *)
(*                                                                         *)
(*   SpecCache    FrontendCache (frontend/src/utils/cache.ts): the         *)
(*                localStorage result cache with expiry.                   *)
(*   SpecAnalyze  App.handleAnalyze (frontend/src/App.tsx): the cache      *)
(*                lookup and the retry loop around POST /api/analyze.      *)
(*   SpecGateway  the /api/analyze endpoint of the backend: completeness   *)
(*                routing and the primary -> fallback provider walk.       *)
(*   SpecTheme    ThemeProvider (frontend/src/contexts/ThemeContext.tsx)   *)
(*                and ThemeToggle: theme, persistence, root class.         *)
(*   SpecKeys     FrontendCache.setAnalysis / getAnalysis: the cache key   *)
(*                of a slug, code, language and analysis type.             *)
(*   SpecHints    ResultsDisplay (frontend/src/components/                 *)
(*                ResultsDisplay.tsx): the progressive reveal of hints.    *)
(*   SpecKeyboard App's keyboard shortcuts (frontend/src/hooks/            *)
(*                useKeyboardShortcuts.ts) and the two dialogs.            *)
(*   SpecPage     App as the user drives it: selection, history, re-run    *)
(*                and the handleAnalyze calls awaiting their result.       *)
(*                                                                         *)
(* Times are milliseconds, as Date.now() and setTimeout count them.        *)
(***************************************************************************)
EXTENDS Integers, Sequences, FiniteSets, TLC

VARIABLES
    now,            \* Date.now()
    ticks,          \* number of clock advances so far (bounds the run)
    storage,        \* localStorage, restricted to the analysis-cache keys
    op,             \* the cache operation that ran last
    got,            \* what the last getEntry / setEntry did
    hPc,            \* handleAnalyze: where the running call stands
    hReq,           \* handleAnalyze: the slug, code and type the call closed over
    lookedUp,       \* handleAnalyze: the arguments of its getAnalysis call, if made
    retryCount,     \* handleAnalyze: let retryCount
    lastError,      \* handleAnalyze: let lastError
    attempts,       \* handleAnalyze: the responses of the fetches made, in order
    waits,          \* handleAnalyze: the setTimeout delays awaited between fetches
    pending,        \* handleAnalyze: the result held during the 300 ms delay
    loading,        \* React state
    analysisResult, \* React state
    error,          \* React state
    runs,           \* calls of handleAnalyze so far (bounds the run)
    gwPc,           \* /api/analyze: the step the request stands at
    gwReq,          \* /api/analyze: the request (type, code, and what the
                    \*   completeness check answers for it when asked)
    gwGate,         \* /api/analyze: what the completeness check returned
    gwProv,         \* /api/analyze: position in the provider order
    gwAttempt,      \* /api/analyze: attempts made against the current provider
    gwLog,          \* /api/analyze: the analysis calls made to providers, in order
    gwResult,       \* /api/analyze: what the caller receives
    gwCache,        \* backend analysis cache
    gwServed,       \* requests received so far (bounds the run)
    theme,          \* ThemeProvider: React state
    mounted,        \* ThemeProvider is rendered
    defaultTheme,   \* ThemeProvider: the defaultTheme prop of the current mount
    themeItem,      \* localStorage[storageKey]
    rootDark,       \* document.documentElement.classList contains 'dark'
    toggles,        \* activations of the toggle since the mount
    activation,     \* how the toggle was activated last
    themeAtMount,   \* the theme the current mount started with
    itemAtMount,    \* what localStorage held when the current mount began
    readOk,         \* localStorage.getItem of the current mount did not throw
    lastSetOk,      \* the last localStorage.setItem did not throw
    prevTheme,      \* the theme that was active at the last unmount
    prevSetOk,      \* lastSetOk at the last unmount
    mounts,         \* mounts so far (bounds the run)
    storedFor,      \* per cache key: the arguments of the setAnalysis that wrote it
    asked,          \* the last getAnalysis: its arguments and what it returned
    hintsShown,     \* ResultsDisplay renders a hints result
    hintCount,      \* hintResult.hints.length of the rendered result
    hasNextSteps,   \* hintResult.next_steps is a non-empty array
    revealedHints,  \* ResultsDisplay: React state
    nextStepsRevealed, \* ResultsDisplay: React state
    showHistory,    \* App: React state
    showShortcutsHelp, \* App: React state
    kbEvent,        \* the keydown event the window listener handled last
    helpBefore,     \* showShortcutsHelp when that event arrived
    historyBefore,  \* showHistory when that event arrived
    layout,         \* which App.tsx is open: with the Analyze button, or with the analysis buttons
    pageCode,       \* App: React state code
    isUrlValid,     \* App: isUrlValid
    selectedAnalysis, \* App: React state
    pageLoading,    \* App: React state loading
    pageResult,     \* App: React state analysisResult, with the code and type it was produced for
    pageError,      \* App: React state error is set
    pageCalls,      \* handleAnalyze calls awaiting their result: the code and type each closed over
    pageTimers,     \* setTimeout(handleAnalyze, 100) pending: the render each closed over
    submittedCode,  \* the code of the last submission (analysis started, entry loaded or re-run)
    lastClick       \* the analysis button clicked last and the request that click started

cacheVars == <<now, ticks, storage, op, got>>
appVars == <<hPc, hReq, lookedUp, retryCount, lastError, attempts, waits, pending,
             loading, analysisResult, error, runs>>

gwVars == <<gwPc, gwReq, gwGate, gwProv, gwAttempt, gwLog, gwResult, gwCache, gwServed>>

keyVars == <<storedFor, asked>>

hintVars == <<hintsShown, hintCount, hasNextSteps, revealedHints, nextStepsRevealed>>

kbVars == <<showHistory, showShortcutsHelp, kbEvent, helpBefore, historyBefore>>

pageVars == <<layout, pageCode, isUrlValid, selectedAnalysis, pageLoading, pageResult, pageError, pageCalls, pageTimers, submittedCode, lastClick>>

themeVars == <<theme, mounted, defaultTheme, themeItem, rootDark, toggles, activation,
               themeAtMount, itemAtMount, readOk, lastSetOk, prevTheme, prevSetOk, mounts>>

vars == <<now, ticks, storage, op, got, hPc, hReq, lookedUp, retryCount, lastError,
          attempts, waits, pending, loading, analysisResult, error, runs,
          gwPc, gwReq, gwGate, gwProv, gwAttempt, gwLog, gwResult, gwCache, gwServed,
          theme, mounted, defaultTheme, themeItem, rootDark, toggles, activation,
          themeAtMount, itemAtMount, readOk, lastSetOk, prevTheme, prevSetOk, mounts,
          storedFor, asked,
          hintsShown, hintCount, hasNextSteps, revealedHints, nextStepsRevealed,
          showHistory, showShortcutsHelp, kbEvent, helpBefore, historyBefore,
          layout, pageCode, isUrlValid, selectedAnalysis, pageLoading, pageResult, pageError, pageCalls, pageTimers, submittedCode, lastClick>>

----------------------------------------------------------------------------
(* Bounds of the model *)

MaxTicks == 2       \* clock advances per run
MaxSkew == 1        \* ms that may pass between the two Date.now() of setEntry
MaxRuns == 2        \* calls of handleAnalyze per run
MaxServed == 2      \* requests the endpoint serves per run
MaxToggles == 3     \* activations of the theme toggle per mount
MaxMounts == 2      \* mounts of ThemeProvider per run
MaxPending == 2      \* handleAnalyze calls awaiting a result or a timer, at once
MaxHints == 6        \* hints in a hints result

----------------------------------------------------------------------------
(* FrontendCache *)

ANALYSIS_PREFIX == "leetcode_analysis_"
ANALYSIS_TTL == 60 * 60 * 1000

\* The clock moves by one millisecond or by just under the TTL, so that the
\* ages TTL - 1, TTL and TTL + 1 are all reached.
TickSteps == {1, ANALYSIS_TTL - 1}

Values == {"analysis", "incomplete_solution"}
Null == "null"

MinInt32 == (-2147483647) - 1

\* a + b in 32-bit two's complement (the result of  x & x  on the sum)
AddInt32(a, b) ==
    IF a > 0 /\ b > 0 /\ a > 2147483647 - b
        THEN ((a - 2147483647) - 1) + ((b - 2147483647) - 1)
    ELSE IF a < 0 /\ b < 0 /\ a < MinInt32 - b
        THEN ((a + 2147483647) + 1) + ((b + 2147483647) + 1)
    ELSE a + b

\* hash << 5
Shl5(h) ==
    LET d1 == AddInt32(h, h)
        d2 == AddInt32(d1, d1)
        d3 == AddInt32(d2, d2)
        d4 == AddInt32(d3, d3)
    IN  AddInt32(d4, d4)

\* -h; -(-2^31) wraps to itself
NegInt32(h) == IF h = MinInt32 THEN h ELSE 0 - h

RECURSIVE HashLoop(_, _, _)
HashLoop(str, i, hash) ==
    IF i > Len(str) THEN hash
    ELSE HashLoop(str, i + 1,
                  AddInt32(AddInt32(Shl5(hash), NegInt32(hash)), str[i]))

\* hashCode(str): str is the sequence of the string's char codes.  Math.abs of
\* the 32-bit hash, written out in digits (toString(36) in the source: another
\* radix, the same digits-only shape).  Math.abs(-2^31) = 2^31 is outside the
\* integers of the checker; no string of the model hashes to it.
HashCode(str) ==
    LET hash == HashLoop(str, 1, 0)
    IN  ToString(IF hash < 0 THEN 0 - hash ELSE hash)

RECURSIVE Join(_)
Join(params) ==
    IF Len(params) = 0 THEN ""
    ELSE IF Len(params) = 1 THEN params[1]
    ELSE params[1] \o "_" \o Join(Tail(params))

\* generateKey(prefix, ...params)
GenerateKey(prefix, params) == prefix \o Join(params)

\* the key setAnalysis and getAnalysis build
AnalysisKey(problemSlug, code, language, analysisType) ==
    GenerateKey(ANALYSIS_PREFIX, <<problemSlug, HashCode(code), language, analysisType>>)

Entry(value, timestamp, expiresAt) ==
    [value |-> value, timestamp |-> timestamp, expiresAt |-> expiresAt]

\* if (Date.now() > entry.expiresAt)
IsExpired(entry, t) == t > entry.expiresAt

\* localStorage.removeItem(key)
RemoveItem(store, key) == [k \in (DOMAIN store) \ {key} |-> store[k]]

\* localStorage.setItem(key, item)
SetItem(store, key, item) ==
    [k \in (DOMAIN store) \cup {key} |-> IF k = key THEN item ELSE store[k]]

\* clearExpired(): remove every cache entry with now > expiresAt
ClearExpired(store, t) ==
    [k \in {j \in DOMAIN store : ~IsExpired(store[j], t)} |-> store[k]]

\* setEntry(key, value, ttl): t1 and t2 are the two readings of Date.now();
\* quota is TRUE when localStorage.setItem throws.
SetEntry(store, key, value, ttl, t1, t2, quota) ==
    IF quota
    THEN ClearExpired(store, t2)
    ELSE SetItem(store, key, Entry(value, t1, t2 + ttl))

\* getEntry(key): the value returned (Null for none) ...
GetEntryValue(store, key, t) ==
    IF key \notin DOMAIN store THEN Null
    ELSE IF IsExpired(store[key], t) THEN Null
    ELSE store[key].value

\* ... and localStorage after it (an expired item is removed).
GetEntryStoreConsume(store, key, t) ==
    IF key \in DOMAIN store
    THEN RemoveItem(store, key)
    ELSE store

GetEntryStore(store, key, t) ==
    IF key \in DOMAIN store /\ IsExpired(store[key], t)
    THEN RemoveItem(store, key)
    ELSE store

\* The strings whose analyses are cached: "Aa", "BB" (equal hashCode) and "ab".
Codes == {<<65, 97>>, <<66, 66>>, <<97, 98>>}
Slugs == {"", "two-sum"}
AnalysisTypes == {"complexity", "hints", "optimization", "debugging"}

CacheKeys ==
    {AnalysisKey("two-sum", c, "python", type) : c \in Codes, type \in {"hints", "debugging"}}

NoGot == [key |-> "", value |-> Null, at |-> 0, putAt |-> 0, stored |-> FALSE]

CacheInit ==
    /\ now = 0
    /\ ticks = 0
    /\ storage = <<>>
    /\ op = "load"
    /\ got = NoGot

NoRequest == [slug |-> "", code |-> <<>>, type |-> Null]
NoResponse == [thrown |-> FALSE, fetchTypeError |-> FALSE, status |-> 0,
               detailObject |-> FALSE, retry_after |-> 0, parses |-> FALSE,
               body |-> Null]
NoShownError == [from |-> NoResponse, failedAfter |-> 0]

AppInit ==
    /\ hPc = "idle"
    /\ hReq = NoRequest
    /\ lookedUp = NoRequest
    /\ retryCount = 0
    /\ lastError = NoResponse
    /\ attempts = <<>>
    /\ waits = <<>>
    /\ pending = Null
    /\ loading = FALSE
    /\ analysisResult = Null
    /\ error = NoShownError
    /\ runs = 0

\* Date.now() advances.
Tick ==
    /\ UNCHANGED <<gwVars, themeVars, keyVars, hintVars, kbVars, pageVars>>
    /\ ticks < MaxTicks
    /\ \E d \in TickSteps : now' = now + d
    /\ ticks' = ticks + 1
    /\ UNCHANGED <<storage, op, got>>
    /\ UNCHANGED appVars

\* frontendCache.setAnalysis(...) -> setEntry(key, result, ANALYSIS_TTL)
Put ==
    /\ UNCHANGED <<gwVars, themeVars, keyVars, hintVars, kbVars, pageVars>>
    /\ \E k \in CacheKeys, v \in Values, skew \in {0, MaxSkew}, quota \in BOOLEAN :
        /\ skew > 0 => ticks < MaxTicks
        /\ ticks' = IF skew > 0 THEN ticks + 1 ELSE ticks
        /\ storage' = SetEntry(storage, k, v, ANALYSIS_TTL, now, now + skew, quota)
        /\ now' = now + skew
        /\ op' = "put"
        /\ got' = [key |-> k, value |-> v, at |-> now + skew, putAt |-> now,
                   stored |-> ~quota]
    /\ UNCHANGED appVars

\* frontendCache.getAnalysis(...) -> getEntry(key)
Get ==
    /\ UNCHANGED <<gwVars, themeVars, keyVars, hintVars, kbVars, pageVars>>
    /\ \E k \in CacheKeys :
        /\ storage' = GetEntryStore(storage, k, now)
        /\ op' = "get"
        /\ got' = [key |-> k, value |-> GetEntryValue(storage, k, now), at |-> now,
                   putAt |-> IF k \in DOMAIN storage THEN storage[k].timestamp ELSE 0,
                   stored |-> FALSE]
    /\ UNCHANGED <<now, ticks>>
    /\ UNCHANGED appVars

\* The page is loaded again: module initialisation runs clearExpired().
Reload ==
    /\ UNCHANGED <<gwVars, themeVars, keyVars, hintVars, kbVars, pageVars>>
    /\ storage' = ClearExpired(storage, now)
    /\ op' = "load"
    /\ got' = NoGot
    /\ UNCHANGED <<now, ticks>>
    /\ UNCHANGED appVars

CacheNext == Tick \/ Put \/ Get \/ Reload


----------------------------------------------------------------------------
(* App.handleAnalyze: cache lookup, then the retry loop around fetch *)

maxRetries == 2

NoRetry == -1

\* What the handler tells apart in the outcome of one fetch('/api/analyze'):
\*   thrown          fetch rejected; fetchTypeError: a TypeError whose message
\*                   includes 'fetch'
\*   status          response.status (response.ok is 200..299)
\*   detailObject    typeof errorData.detail === 'object'
\*   retry_after     detail.retry_after in seconds, 0 when it is not sent
\*   parses          response.json() of an ok response succeeds
RetryAfters == {0, 1, 30}

Thrown ==
    {[thrown |-> TRUE, fetchTypeError |-> b, status |-> 0, detailObject |-> FALSE,
      retry_after |-> 0, parses |-> FALSE, body |-> Null] : b \in BOOLEAN}

OkResponses ==
    {[thrown |-> FALSE, fetchTypeError |-> FALSE, status |-> 200, detailObject |-> FALSE,
      retry_after |-> 0, parses |-> TRUE, body |-> v] : v \in Values}
    \cup
    {[thrown |-> FALSE, fetchTypeError |-> FALSE, status |-> 200, detailObject |-> FALSE,
      retry_after |-> 0, parses |-> FALSE, body |-> Null]}

\* retry_after is a field of the structured detail, sent with 429
ErrorResponses ==
    {r \in [thrown : {FALSE}, fetchTypeError : {FALSE}, status : {400, 429, 500},
            detailObject : BOOLEAN, retry_after : RetryAfters, parses : {FALSE},
            body : {Null}] :
        r.retry_after # 0 => (r.detailObject /\ r.status = 429)}

Responses == Thrown \cup OkResponses \cup ErrorResponses

\* response.ok
ResponseOk(resp) == ~resp.thrown /\ resp.status >= 200 /\ resp.status <= 299

\* the fetch ends in  return  (result parsed), not in continue or throw
Succeeds(resp) == ResponseOk(resp) /\ resp.parses

\* The delay in ms before the next fetch, NoRetry when the loop is left:
\*   detail.retry_after && retryCount < maxRetries   -> retry_after * 1000
\*   response.status >= 500 && retryCount < maxRetries -> 2000  (detail not an object)
\*   TypeError of fetch && retryCount < maxRetries   -> 2000
RetryDelayNoStatusTest(resp, count) ==
    IF resp.thrown
        THEN IF resp.fetchTypeError /\ count < maxRetries THEN 2000 ELSE NoRetry
    ELSE IF ResponseOk(resp) THEN NoRetry
    ELSE IF resp.detailObject
        THEN IF resp.retry_after # 0 /\ count < maxRetries
             THEN resp.retry_after * 1000 ELSE NoRetry
    ELSE IF count < maxRetries THEN 2000 ELSE NoRetry

RetryDelayNoBound(resp, count) ==
    IF resp.thrown
        THEN IF resp.fetchTypeError THEN 2000 ELSE NoRetry
    ELSE IF ResponseOk(resp) THEN NoRetry
    ELSE IF resp.detailObject
        THEN IF resp.retry_after # 0 THEN resp.retry_after * 1000 ELSE NoRetry
    ELSE IF resp.status >= 500 THEN 2000 ELSE NoRetry

RetryDelay(resp, count) ==
    IF resp.thrown
        THEN IF resp.fetchTypeError /\ count < maxRetries THEN 2000 ELSE NoRetry
    ELSE IF ResponseOk(resp) THEN NoRetry
    ELSE IF resp.detailObject
        THEN IF resp.retry_after # 0 /\ count < maxRetries
             THEN resp.retry_after * 1000 ELSE NoRetry
    ELSE IF resp.status >= 500 /\ count < maxRetries THEN 2000 ELSE NoRetry

\* setError(errorMessage): the message of lastError, and the
\* "Failed after N attempts" suffix when retryCount > 0
ShownError(err, count) ==
    [from |-> err, failedAfter |-> IF count > 0 THEN count + 1 ELSE 0]

\* The string submitted for analysis: "ab".
SubmittedCodes == {<<97, 98>>}
SubmittedTypes == {"complexity", "hints"}

\* handleAnalyze up to its first await: the guard (canAnalyze and a selected
\* type: the inputs drawn are those that pass it), the state resets and the
\* frontend cache lookup.
HandleAnalyzeStart ==
    /\ UNCHANGED <<gwVars, themeVars, keyVars, hintVars, kbVars, pageVars>>
    /\ hPc \in {"idle", "done"}
    /\ runs < MaxRuns
    /\ runs' = runs + 1
    /\ \E slug \in Slugs, code \in SubmittedCodes, type \in SubmittedTypes :
        LET key == AnalysisKey(slug, code, "python", type)
            cachedResult == IF slug # "" THEN GetEntryValue(storage, key, now) ELSE Null
        IN  /\ hReq' = [slug |-> slug, code |-> code, type |-> type]
            /\ lookedUp' = IF slug # ""
                           THEN [slug |-> slug, code |-> code, type |-> type]
                           ELSE NoRequest
            /\ storage' = IF slug # "" THEN GetEntryStore(storage, key, now) ELSE storage
            /\ pending' = cachedResult
            /\ hPc' = IF cachedResult # Null THEN "cacheHit" ELSE "fetch"
    /\ loading' = TRUE
    /\ error' = NoShownError
    /\ analysisResult' = Null
    /\ retryCount' = 0
    /\ lastError' = NoResponse
    /\ attempts' = <<>>
    /\ waits' = <<>>
    /\ UNCHANGED <<now, ticks, op, got>>

\* after the 300 ms that show the cache hit
CacheHitDone ==
    /\ UNCHANGED <<gwVars, themeVars, keyVars, hintVars, kbVars, pageVars>>
    /\ hPc = "cacheHit"
    /\ analysisResult' = pending
    /\ loading' = FALSE
    /\ hPc' = "done"
    /\ UNCHANGED <<hReq, lookedUp, retryCount, lastError, attempts, waits, pending, error, runs>>
    /\ UNCHANGED cacheVars

\* One pass of  while (retryCount <= maxRetries) : from fetch to the next
\* await or to the end of the handler.  When the loop condition fails the code
\* after the loop runs: setError only  if (lastError).
Fetch ==
    /\ UNCHANGED <<gwVars, themeVars, keyVars, hintVars, kbVars, pageVars>>
    /\ hPc = "fetch"
    /\ \E resp \in Responses, skew \in {0, MaxSkew}, quota \in BOOLEAN :
        LET delay == RetryDelay(resp, retryCount)
            key == AnalysisKey(hReq.slug, hReq.code, "python", hReq.type)
            cached == Succeeds(resp) /\ hReq.slug # "" /\ retryCount <= maxRetries
            dt == IF cached THEN skew ELSE 0
        IN  /\ dt > 0 => ticks < MaxTicks
            /\ ticks' = IF dt > 0 THEN ticks + 1 ELSE ticks
            /\ now' = now + dt
            /\ storage' = IF cached
                          THEN SetEntry(storage, key, resp.body, ANALYSIS_TTL,
                                        now, now + dt, quota)
                          ELSE storage
            /\ IF retryCount > maxRetries
               THEN /\ error' = IF lastError # NoResponse
                                THEN ShownError(lastError, retryCount) ELSE error
                    /\ loading' = FALSE
                    /\ hPc' = "done"
                    /\ UNCHANGED <<attempts, pending, waits, lastError>>
               ELSE IF Succeeds(resp)
               THEN /\ attempts' = Append(attempts, resp)
                    /\ pending' = resp.body
                    /\ hPc' = "complete"
                    /\ UNCHANGED <<lastError, waits, error, loading>>
               ELSE IF delay # NoRetry
               THEN /\ attempts' = Append(attempts, resp)
                    /\ waits' = Append(waits, delay)
                    /\ lastError' = IF resp.thrown THEN resp ELSE lastError
                    /\ hPc' = "wait"
                    /\ UNCHANGED <<pending, error, loading>>
               ELSE /\ attempts' = Append(attempts, resp)
                    /\ lastError' = resp
                    /\ error' = ShownError(resp, retryCount)
                    /\ loading' = FALSE
                    /\ hPc' = "done"
                    /\ UNCHANGED <<pending, waits>>
    /\ UNCHANGED <<hReq, lookedUp, retryCount, analysisResult, runs, op, got>>

\* the setTimeout of a retry has elapsed: retryCount++; continue
WaitDone ==
    /\ UNCHANGED <<gwVars, themeVars, keyVars, hintVars, kbVars, pageVars>>
    /\ hPc = "wait"
    /\ retryCount' = retryCount + 1
    /\ hPc' = "fetch"
    /\ UNCHANGED <<hReq, lookedUp, lastError, attempts, waits, pending, loading,
                   analysisResult, error, runs>>
    /\ UNCHANGED cacheVars

\* after the 300 ms that show completion
CompleteDone ==
    /\ UNCHANGED <<gwVars, themeVars, keyVars, hintVars, kbVars, pageVars>>
    /\ hPc = "complete"
    /\ analysisResult' = pending
    /\ loading' = FALSE
    /\ hPc' = "done"
    /\ UNCHANGED <<hReq, lookedUp, retryCount, lastError, attempts, waits, pending, error, runs>>
    /\ UNCHANGED cacheVars

AnalyzeNext ==
    Tick \/ HandleAnalyzeStart \/ CacheHitDone \/ Fetch \/ WaitDone \/ CompleteDone


----------------------------------------------------------------------------
(* The /api/analyze endpoint: cache lookup, completeness routing, then the  *)
(* providers in their configured order, each under the retry policy.        *)

\* AI_PROVIDER=claude, FALLBACK_PROVIDER=openai
ProviderOrder == <<"claude", "openai">>

\* RetryPolicy: attempts per provider call, the first included
MaxAttempts == 3

ProviderOutcomes == {"success", "transient", "permanent", "rateLimited"}
GateAnswers == {"complete", "incomplete", "error"}

\* requires_complete_solution = request.analysis_type in [...]
RequiresCompleteWithHints == {"complexity", "optimization", "debugging", "hints"}
RequiresCompleteNoComplexity == {"optimization", "debugging"}
RequiresComplete == {"complexity", "optimization", "debugging"}

\* if requires_complete_solution: completeness = await check_solution_completeness(...)
GateConsulted(type) == type \in RequiresComplete

\* if not completeness.is_complete: return {"incomplete_solution": True, ...};
\* a check that fails is logged and the analysis proceeds.
GateStopsFailClosed(answer) == answer # "complete"
GateStops(answer) == answer = "incomplete"

NoResult == [type |-> "none", of |-> Null, classification |-> Null]
AnalysisOf(type) == [type |-> "analysis", of |-> type, classification |-> Null]
IncompleteSolutionNotice(type) ==
    [type |-> "incomplete_solution", of |-> type, classification |-> Null]
AllProvidersExhausted(type, classification) ==
    [type |-> "AllProvidersExhausted", of |-> type, classification |-> classification]

\* RetryPolicy: another attempt against the same provider follows
RetriesAgain(outcome, attempt) ==
    outcome \in {"transient", "rateLimited"} /\ attempt < MaxAttempts

\* the position consulted after provider p has failed
NextProviderRestart(p) == 1
NextProvider(p) == p + 1

\* what the caller receives once the walk has run past the last provider
FailureSurfacedFirst(type, log) == AllProvidersExhausted(type, log[1].outcome)
FailureSurfaced(type, log) == AllProvidersExhausted(type, log[Len(log)].outcome)

\* the fingerprint of a request
Fingerprint(req) == <<req.code, req.type>>

GwCodes == {"c1", "c2"}
NoGwRequest == [type |-> Null, code |-> Null, answer |-> Null]

GwInit ==
    /\ gwPc = "idle"
    /\ gwReq = NoGwRequest
    /\ gwGate = "none"
    /\ gwProv = 0
    /\ gwAttempt = 0
    /\ gwLog = <<>>
    /\ gwResult = NoResult
    /\ gwCache = <<>>
    /\ gwServed = 0

\* A request arrives; step 1, the cache lookup, is part of it.
GwReceive ==
    /\ gwPc \in {"idle", "done"}
    /\ gwServed < MaxServed
    /\ gwServed' = gwServed + 1
    /\ \E type \in AnalysisTypes, code \in GwCodes, answer \in GateAnswers :
        LET req == [type |-> type, code |-> code, answer |-> answer]
        IN  /\ gwReq' = req
            /\ IF Fingerprint(req) \in DOMAIN gwCache
               THEN /\ gwResult' = gwCache[Fingerprint(req)]
                    /\ gwPc' = "done"
               ELSE /\ gwResult' = NoResult
                    /\ gwPc' = "gate"
    /\ gwGate' = "none"
    /\ gwProv' = 0
    /\ gwAttempt' = 0
    /\ gwLog' = <<>>
    /\ UNCHANGED gwCache
    /\ UNCHANGED <<cacheVars, appVars, themeVars, keyVars, hintVars, kbVars, pageVars>>

\* Step 2: the completeness routing.
GwGateCheck ==
    /\ gwPc = "gate"
    /\ IF GateConsulted(gwReq.type)
       THEN /\ gwGate' = gwReq.answer
            /\ IF GateStops(gwReq.answer)
               THEN /\ gwResult' = IncompleteSolutionNotice(gwReq.type)
                    /\ gwPc' = "done"
                    /\ UNCHANGED gwProv
               ELSE /\ gwPc' = "walk"
                    /\ gwProv' = 1
                    /\ UNCHANGED gwResult
       ELSE /\ gwGate' = "skipped"
            /\ gwPc' = "walk"
            /\ gwProv' = 1
            /\ UNCHANGED gwResult
    /\ UNCHANGED <<gwReq, gwAttempt, gwLog, gwCache, gwServed>>
    /\ UNCHANGED <<cacheVars, appVars, themeVars, keyVars, hintVars, kbVars, pageVars>>

\* Step 3: one attempt against the current provider, and what the retry
\* policy and the fallback make of its outcome.
GwProviderCall ==
    /\ gwPc = "walk"
    /\ \E outcome \in ProviderOutcomes :
        LET attempt == gwAttempt + 1
            log == Append(gwLog, [provider |-> gwProv, attempt |-> attempt,
                                  outcome |-> outcome])
        IN  /\ gwLog' = log
            /\ IF outcome = "success"
               THEN /\ gwResult' = AnalysisOf(gwReq.type)
                    /\ gwPc' = "populate"
                    /\ gwAttempt' = attempt
                    /\ UNCHANGED gwProv
               ELSE IF RetriesAgain(outcome, attempt)
               THEN /\ gwAttempt' = attempt
                    /\ UNCHANGED <<gwResult, gwPc, gwProv>>
               ELSE IF NextProvider(gwProv) <= Len(ProviderOrder)
               THEN /\ gwProv' = NextProvider(gwProv)
                    /\ gwAttempt' = 0
                    /\ UNCHANGED <<gwResult, gwPc>>
               ELSE /\ gwResult' = FailureSurfaced(gwReq.type, log)
                    /\ gwPc' = "done"
                    /\ gwAttempt' = attempt
                    /\ UNCHANGED gwProv
    /\ UNCHANGED <<gwReq, gwGate, gwCache, gwServed>>
    /\ UNCHANGED <<cacheVars, appVars, themeVars, keyVars, hintVars, kbVars, pageVars>>

\* Step 4: the successful result is cached and returned.
GwCachePopulate ==
    /\ gwPc = "populate"
    /\ gwCache' = [f \in (DOMAIN gwCache) \cup {Fingerprint(gwReq)} |->
                      IF f = Fingerprint(gwReq) THEN gwResult ELSE gwCache[f]]
    /\ gwPc' = "done"
    /\ UNCHANGED <<gwReq, gwGate, gwProv, gwAttempt, gwLog, gwResult, gwServed>>
    /\ UNCHANGED <<cacheVars, appVars, themeVars, keyVars, hintVars, kbVars, pageVars>>

\* An entry leaves the cache (its TTL has run out).
GwCacheExpire ==
    /\ \E f \in DOMAIN gwCache :
        gwCache' = [g \in (DOMAIN gwCache) \ {f} |-> gwCache[g]]
    /\ UNCHANGED <<gwPc, gwReq, gwGate, gwProv, gwAttempt, gwLog, gwResult, gwServed>>
    /\ UNCHANGED <<cacheVars, appVars, themeVars, keyVars, hintVars, kbVars, pageVars>>

GatewayNext ==
    GwReceive \/ GwGateCheck \/ GwProviderCall \/ GwCachePopulate \/ GwCacheExpire


----------------------------------------------------------------------------
(* ThemeProvider and ThemeToggle: the theme, its copy in localStorage and   *)
(* the 'dark' class of the document root.                                   *)

Themes == {"light", "dark"}

\* localStorage.getItem(storageKey): NoItem stands for null (no such key)
NoItem == "<none>"
StoredValues == {"light", "dark", "", "invalid"}

NoTheme == "none"
Activations == {"click", "Enter", "Space"}

\* getInitialTheme(): the stored value when it is 'light' or 'dark' and the
\* read did not throw, defaultTheme otherwise
GetInitialThemeNoValidation(stored, throws, dflt) ==
    IF ~throws /\ stored # NoItem THEN stored ELSE dflt

GetInitialTheme(stored, throws, dflt) ==
    IF ~throws /\ (stored = "light" \/ stored = "dark") THEN stored ELSE dflt

\* toggleTheme: setTheme(prev => prev === 'light' ? 'dark' : 'light')
ToggleThemeToDark(prev) == "dark"

ToggleTheme(prev) == IF prev = "light" THEN "dark" ELSE "light"

\* the classList effect: add 'dark' when the theme is dark, remove it otherwise
RootClassEffectAddOnly(t, hadDark) == hadDark \/ t = "dark"

RootClassEffect(t, hadDark) == t = "dark"

\* the persistence effect: setItem(storageKey, theme), a throw is caught
PersistEffectNever(item, t, throws) == item

PersistEffect(item, t, throws) == IF throws THEN item ELSE t

ThemeInit ==
    /\ theme = "light"
    /\ mounted = FALSE
    /\ defaultTheme = "light"
    /\ themeItem = NoItem
    /\ rootDark = FALSE
    /\ toggles = 0
    /\ activation = "none"
    /\ themeAtMount = NoTheme
    /\ itemAtMount = NoItem
    /\ readOk = TRUE
    /\ lastSetOk = TRUE
    /\ prevTheme = NoTheme
    /\ prevSetOk = TRUE
    /\ mounts = 0

\* What the browser holds when the page is opened for the first time in the
\* run: an earlier visit or another script may have left any value under the
\* key, and the root element may carry the class already.
ThemePageOpen ==
    /\ ~mounted
    /\ mounts = 0
    /\ themeItem' \in StoredValues \cup {NoItem}
    /\ rootDark' \in BOOLEAN
    /\ UNCHANGED <<theme, mounted, defaultTheme, toggles, activation, themeAtMount,
                   itemAtMount, readOk, lastSetOk, prevTheme, prevSetOk, mounts>>
    /\ UNCHANGED <<cacheVars, appVars, gwVars, keyVars, hintVars, kbVars, pageVars>>

\* ThemeProvider is rendered: useState(getInitialTheme), then both effects.
ThemeMount ==
    /\ ~mounted
    /\ mounts < MaxMounts
    /\ mounts' = mounts + 1
    /\ \E dflt \in Themes, getThrows \in BOOLEAN, setThrows \in BOOLEAN :
        LET t == GetInitialTheme(themeItem, getThrows, dflt)
        IN  /\ theme' = t
            /\ themeAtMount' = t
            /\ defaultTheme' = dflt
            /\ readOk' = ~getThrows
            /\ rootDark' = RootClassEffect(t, rootDark)
            /\ themeItem' = PersistEffect(themeItem, t, setThrows)
            /\ lastSetOk' = ~setThrows
    /\ itemAtMount' = themeItem
    /\ mounted' = TRUE
    /\ toggles' = 0
    /\ activation' = "none"
    /\ UNCHANGED <<prevTheme, prevSetOk>>
    /\ UNCHANGED <<cacheVars, appVars, gwVars, keyVars, hintVars, kbVars, pageVars>>

\* The toggle button is activated (onClick; Enter and Space click a focused
\* button): toggleTheme, then both effects for the new theme.
ThemeActivate ==
    /\ mounted
    /\ toggles < MaxToggles
    /\ toggles' = toggles + 1
    /\ \E how \in Activations, setThrows \in BOOLEAN :
        LET t == ToggleTheme(theme)
        IN  /\ theme' = t
            /\ rootDark' = RootClassEffect(t, rootDark)
            /\ themeItem' = PersistEffect(themeItem, t, setThrows)
            /\ lastSetOk' = ~setThrows
            /\ activation' = how
    /\ UNCHANGED <<mounted, defaultTheme, themeAtMount, itemAtMount, readOk,
                   prevTheme, prevSetOk, mounts>>
    /\ UNCHANGED <<cacheVars, appVars, gwVars, keyVars, hintVars, kbVars, pageVars>>

\* The page is left: the provider goes, localStorage and the root class stay.
ThemeUnmount ==
    /\ mounted
    /\ mounted' = FALSE
    /\ prevTheme' = theme
    /\ prevSetOk' = lastSetOk
    /\ UNCHANGED <<theme, defaultTheme, themeItem, rootDark, toggles, activation,
                   themeAtMount, itemAtMount, readOk, lastSetOk, mounts>>
    /\ UNCHANGED <<cacheVars, appVars, gwVars, keyVars, hintVars, kbVars, pageVars>>

ThemeNext == ThemePageOpen \/ ThemeMount \/ ThemeActivate \/ ThemeUnmount


----------------------------------------------------------------------------
(* FrontendCache.setAnalysis / getAnalysis called with their arguments: which *)
(* code an entry was stored for, and which code it is returned for.           *)

NoAsked == [slug |-> "", code |-> <<>>, type |-> Null, value |-> Null]

KeysInit ==
    /\ storedFor = <<>>
    /\ asked = NoAsked

\* frontendCache.setAnalysis(slug, code, 'python', type, result)
SetAnalysis ==
    /\ \E code \in Codes, type \in {"hints", "debugging"}, quota \in BOOLEAN :
        LET key == AnalysisKey("two-sum", code, "python", type)
            v == "analysis"
            args == [slug |-> "two-sum", code |-> code, type |-> type]
        IN  /\ storage' = SetEntry(storage, key, v, ANALYSIS_TTL, now, now, quota)
            /\ storedFor' = IF quota THEN storedFor
                            ELSE [k \in (DOMAIN storedFor) \cup {key} |->
                                    IF k = key THEN args ELSE storedFor[k]]
            /\ op' = "put"
            /\ got' = [key |-> key, value |-> v, at |-> now, putAt |-> now,
                       stored |-> ~quota]
    /\ UNCHANGED <<now, ticks, asked>>
    /\ UNCHANGED <<appVars, gwVars, themeVars, hintVars, kbVars, pageVars>>

\* frontendCache.getAnalysis(slug, code, 'python', type)
GetAnalysis ==
    /\ \E code \in Codes, type \in {"hints", "debugging"} :
        LET key == AnalysisKey("two-sum", code, "python", type)
        IN  /\ storage' = GetEntryStore(storage, key, now)
            /\ asked' = [slug |-> "two-sum", code |-> code, type |-> type,
                         value |-> GetEntryValue(storage, key, now)]
            /\ op' = "get"
            /\ got' = [key |-> key, value |-> GetEntryValue(storage, key, now),
                       at |-> now,
                       putAt |-> IF key \in DOMAIN storage
                                 THEN storage[key].timestamp ELSE 0,
                       stored |-> FALSE]
    /\ UNCHANGED <<now, ticks, storedFor>>
    /\ UNCHANGED <<appVars, gwVars, themeVars, hintVars, kbVars, pageVars>>

KeysNext == SetAnalysis \/ GetAnalysis


----------------------------------------------------------------------------
(* ResultsDisplay (frontend/src/components/ResultsDisplay.tsx): the         *)
(* progressive reveal of a hints result.                                    *)

\* toggleHint's state update: prev => the set with index flipped
ToggleHint(prev, index) ==
    IF index \in prev THEN prev \ {index} ELSE prev \cup {index}

\* the "Click to Reveal Hint" overlay of hint index is rendered
RevealOverlayAlways(revealed, index) == TRUE

RevealOverlay(revealed, index) == ~(index \in revealed) /\ ~(index = 0)

\* the hint text is rendered without the blur
HintVisible(revealed, index) == ~(~(index \in revealed) /\ ~(index = 0))

HintsInit ==
    /\ hintsShown = FALSE
    /\ hintCount = 0
    /\ hasNextSteps = FALSE
    /\ revealedHints = {0}
    /\ nextStepsRevealed = FALSE

\* a hints result with a hints array arrives and is rendered
HintsRender ==
    /\ ~hintsShown
    /\ hintsShown' = TRUE
    /\ \E n \in 1..MaxHints : hintCount' = n
    /\ \E ns \in BOOLEAN : hasNextSteps' = ns
    /\ UNCHANGED <<revealedHints, nextStepsRevealed>>
    /\ UNCHANGED <<cacheVars, appVars, gwVars, themeVars, keyVars, kbVars, pageVars>>

\* click on the reveal overlay of a hint
ClickRevealHint ==
    /\ hintsShown
    /\ \E index \in 0..(hintCount - 1) :
        /\ RevealOverlay(revealedHints, index)
        /\ revealedHints' = ToggleHint(revealedHints, index)
    /\ UNCHANGED <<hintsShown, hintCount, hasNextSteps, nextStepsRevealed>>
    /\ UNCHANGED <<cacheVars, appVars, gwVars, themeVars, keyVars, kbVars, pageVars>>

\* click on the reveal overlay of the Next Steps section
ClickRevealNextSteps ==
    /\ hintsShown
    /\ hasNextSteps
    /\ ~nextStepsRevealed
    /\ nextStepsRevealed' = TRUE
    /\ UNCHANGED <<hintsShown, hintCount, hasNextSteps, revealedHints>>
    /\ UNCHANGED <<cacheVars, appVars, gwVars, themeVars, keyVars, kbVars, pageVars>>

HintsNext == HintsRender \/ ClickRevealHint \/ ClickRevealNextSteps


----------------------------------------------------------------------------
(* App's keyboard shortcuts (frontend/src/App.tsx, shortcuts) as the       *)
(* window keydown listener of hooks/useKeyboardShortcuts.ts dispatches     *)
(* them, and the two dialogs they open and close.  An event carries        *)
(* event.key, ctrl (event.ctrlKey || event.metaKey), shiftKey, altKey and  *)
(* whether its target is an INPUT, a TEXTAREA or contentEditable.          *)

\* the shortcuts array, in its order; act names what the action does
Shortcuts ==
    << [key |-> "Enter",  ctrl |-> TRUE,  shift |-> FALSE, alt |-> FALSE, act |-> "run"],
       [key |-> "?",      ctrl |-> FALSE, shift |-> FALSE, alt |-> FALSE, act |-> "toggleHelp"],
       [key |-> "Escape", ctrl |-> FALSE, shift |-> FALSE, alt |-> FALSE, act |-> "closeDialogs"],
       [key |-> "h",      ctrl |-> TRUE,  shift |-> FALSE, alt |-> FALSE, act |-> "toggleHistory"],
       [key |-> "1",      ctrl |-> FALSE, shift |-> FALSE, alt |-> TRUE,  act |-> "focus"],
       [key |-> "2",      ctrl |-> FALSE, shift |-> FALSE, alt |-> TRUE,  act |-> "focus"],
       [key |-> "3",      ctrl |-> FALSE, shift |-> FALSE, alt |-> TRUE,  act |-> "focus"],
       [key |-> "c",      ctrl |-> TRUE,  shift |-> TRUE,  alt |-> FALSE, act |-> "select"],
       [key |-> "h",      ctrl |-> TRUE,  shift |-> TRUE,  alt |-> FALSE, act |-> "select"],
       [key |-> "o",      ctrl |-> TRUE,  shift |-> TRUE,  alt |-> FALSE, act |-> "select"],
       [key |-> "d",      ctrl |-> TRUE,  shift |-> TRUE,  alt |-> FALSE, act |-> "select"],
       [key |-> "r",      ctrl |-> TRUE,  shift |-> FALSE, alt |-> FALSE, act |-> "scroll"] >>

\* String.prototype.toLowerCase on the key names that occur
ToLowerCase(k) ==
    CASE k = "Enter" -> "enter"
      [] k = "Escape" -> "escape"
      [] k = "H" -> "h"
      [] OTHER -> k

\* the keys pressed: ? / Escape / h (H with Shift held) / a key bound to nothing
EventKeys == {"?", "Escape", "h", "H", "x"}

KeyEvents ==
    [key : EventKeys, ctrl : BOOLEAN, shift : BOOLEAN, alt : BOOLEAN, inInput : BOOLEAN]

NoKeyEvent == [key |-> "", ctrl |-> FALSE, shift |-> FALSE, alt |-> FALSE, inInput |-> FALSE]

\* keyMatches && ctrlMatches && shiftMatches && altMatches
ShortcutMatches(ev, sc) ==
    /\ ToLowerCase(ev.key) = ToLowerCase(sc.key)
    /\ IF sc.ctrl THEN ev.ctrl ELSE ~ev.ctrl
    /\ IF sc.shift THEN ev.shift ELSE ~ev.shift
    /\ IF sc.alt THEN ev.alt ELSE ~ev.alt

\* isInputField && !(shortcut.ctrl && shortcut.key === 'Enter'): continue
SkippedInInput(ev, sc) == ev.inInput /\ ~(sc.ctrl /\ sc.key = "Enter")

\* handleKeyDown: what the action that runs does ("none": no action runs)
HandleKeyDown(enabled, ev) ==
    LET fired == {i \in DOMAIN Shortcuts :
                    ShortcutMatches(ev, Shortcuts[i]) /\ ~SkippedInInput(ev, Shortcuts[i])}
    IN  IF ~enabled \/ fired = {} THEN "none"
        ELSE Shortcuts[CHOOSE i \in fired : \A j \in fired : i <= j].act

KbInit ==
    /\ showHistory = FALSE
    /\ showShortcutsHelp = FALSE
    /\ kbEvent = NoKeyEvent
    /\ helpBefore = FALSE
    /\ historyBefore = FALSE

\* a keydown reaches the window listener; the hook is enabled while the help
\* is closed.  Of the actions only those of ?, Escape and Ctrl+H write the
\* two dialog flags.
KeyDown ==
    /\ \E ev \in KeyEvents :
        LET act == HandleKeyDown(~showShortcutsHelp, ev)
        IN  /\ kbEvent' = ev
            /\ showShortcutsHelp' =
                   IF act = "toggleHelp" THEN ~showShortcutsHelp
                   ELSE IF act = "closeDialogs" /\ showShortcutsHelp THEN FALSE
                   ELSE showShortcutsHelp
            /\ showHistory' =
                   IF act = "toggleHistory" THEN ~showHistory
                   ELSE IF act = "closeDialogs" /\ ~showShortcutsHelp /\ showHistory
                        THEN FALSE
                   ELSE showHistory
    /\ helpBefore' = showShortcutsHelp
    /\ historyBefore' = showHistory
    /\ UNCHANGED <<cacheVars, appVars, gwVars, themeVars, keyVars, hintVars, pageVars>>

\* the View History / Hide History button
ClickHistoryButton ==
    /\ showHistory' = ~showHistory
    /\ kbEvent' = NoKeyEvent
    /\ UNCHANGED <<showShortcutsHelp, helpBefore, historyBefore>>
    /\ UNCHANGED <<cacheVars, appVars, gwVars, themeVars, keyVars, hintVars, pageVars>>

\* the keyboard-shortcuts button of the header
ClickShortcutsButton ==
    /\ showShortcutsHelp' = TRUE
    /\ kbEvent' = NoKeyEvent
    /\ UNCHANGED <<showHistory, helpBefore, historyBefore>>
    /\ UNCHANGED <<cacheVars, appVars, gwVars, themeVars, keyVars, hintVars, pageVars>>

\* KeyboardShortcutsHelp calls its onClose prop
HelpOnClose ==
    /\ showShortcutsHelp
    /\ showShortcutsHelp' = FALSE
    /\ kbEvent' = NoKeyEvent
    /\ UNCHANGED <<showHistory, helpBefore, historyBefore>>
    /\ UNCHANGED <<cacheVars, appVars, gwVars, themeVars, keyVars, hintVars, pageVars>>

KeyboardNext == KeyDown \/ ClickHistoryButton \/ ClickShortcutsButton \/ HelpOnClose


----------------------------------------------------------------------------
(* App (frontend/src/App.tsx) as the user drives it: the handlers that     *)
(* read and write code, selectedAnalysis, loading, analysisResult and      *)
(* error, with the handleAnalyze calls that are awaiting their result.     *)
(* A handler runs with the state of the render it was created in; a call   *)
(* of handleAnalyze keeps that state until it returns.  The retry loop of  *)
(* a call is SpecAnalyze's subject; here a call is started and settles.    *)
(* layout tells the two versions of App.tsx apart: "analyzeButton" is      *)
(* frontend/src/App.tsx (AnalysisSelector and an Analyze button),          *)
(* "analysisButtons" the later one (four buttons that select and analyze,  *)
(* problem URL optional).                                                   *)

PageTypes == {"complexity", "hints"}

PageCodes == {"a", "b"}

NoPageResult == [code |-> "", type |-> Null]

NoClick == [type |-> Null, started |-> FALSE, requestType |-> Null]

\* const canAnalyze = isUrlValid && code.trim().length > 0
CanAnalyze(valid, c) == valid /\ c # ""

\* the state a render hands to the handlers it creates
Render == [code |-> pageCode, type |-> selectedAnalysis,
           canAnalyze |-> CanAnalyze(isUrlValid, pageCode)]

\* if (!canAnalyze || !selectedAnalysis) return
PassesGuard(r) == ~(~r.canAnalyze \/ r.type = Null)

\* the history entries: earlier analyses of a code under a type
HistoryEntries == [code : PageCodes, analysis_type : PageTypes]

PageInit ==
    /\ layout = "closed"
    /\ pageCode = ""
    /\ isUrlValid = FALSE
    /\ selectedAnalysis = Null
    /\ pageLoading = FALSE
    /\ pageResult = NoPageResult
    /\ pageError = FALSE
    /\ pageCalls = <<>>
    /\ pageTimers = <<>>
    /\ submittedCode = ""
    /\ lastClick = NoClick

\* the page is opened; the empty problem URL is valid only where it is optional
PageOpen ==
    /\ layout = "closed"
    /\ \E l \in {"analyzeButton", "analysisButtons"} :
        /\ layout' = l
        /\ isUrlValid' = (l = "analysisButtons")
    /\ UNCHANGED <<pageCode, selectedAnalysis, pageLoading, pageResult, pageError,
                   pageCalls, pageTimers, submittedCode, lastClick>>
    /\ UNCHANGED <<cacheVars, appVars, gwVars, themeVars, keyVars, hintVars, kbVars>>

\* handleUrlChange
HandleUrlChange ==
    /\ layout # "closed"
    /\ \E valid \in BOOLEAN : isUrlValid' = valid
    /\ lastClick' = NoClick
    /\ UNCHANGED <<layout, pageCode, selectedAnalysis, pageLoading, pageResult,
                   pageError, pageCalls, pageTimers, submittedCode>>
    /\ UNCHANGED <<cacheVars, appVars, gwVars, themeVars, keyVars, hintVars, kbVars>>

\* handleCodeChange
HandleCodeChange ==
    /\ layout # "closed"
    /\ \E c \in PageCodes \cup {""} : pageCode' = c
    /\ lastClick' = NoClick
    /\ UNCHANGED <<layout, isUrlValid, selectedAnalysis, pageLoading, pageResult,
                   pageError, pageCalls, pageTimers, submittedCode>>
    /\ UNCHANGED <<cacheVars, appVars, gwVars, themeVars, keyVars, hintVars, kbVars>>

\* handleAnalysisSelect, from the AnalysisSelector (disabled = !canAnalyze) or
\* from Ctrl+Shift+C / H / O / D (if (canAnalyze)); loading is not consulted
HandleAnalysisSelect ==
    /\ layout # "closed"
    /\ CanAnalyze(isUrlValid, pageCode)
    /\ \E type \in PageTypes : selectedAnalysis' = type
    /\ pageResult' = NoPageResult
    /\ pageError' = FALSE
    /\ lastClick' = NoClick
    /\ UNCHANGED <<layout, pageCode, isUrlValid, pageLoading, pageCalls, pageTimers,
                   submittedCode>>
    /\ UNCHANGED <<cacheVars, appVars, gwVars, themeVars, keyVars, hintVars, kbVars>>

\* handleAnalyze up to its first await, run with the render r
StartAnalyze(r) ==
    IF PassesGuard(r)
    THEN /\ pageLoading' = TRUE
         /\ pageError' = FALSE
         /\ pageResult' = NoPageResult
         /\ pageCalls' = Append(pageCalls, [code |-> r.code, type |-> r.type])
    ELSE UNCHANGED <<pageLoading, pageError, pageResult, pageCalls>>

\* the Analyze button: rendered if canAnalyze && selectedAnalysis, disabled={loading}
ClickAnalyze ==
    /\ layout = "analyzeButton"
    /\ Len(pageCalls) + Len(pageTimers) < MaxPending
    /\ CanAnalyze(isUrlValid, pageCode) /\ selectedAnalysis # Null
    /\ ~pageLoading
    /\ StartAnalyze(Render)
    /\ submittedCode' = pageCode
    /\ lastClick' = NoClick
    /\ UNCHANGED <<layout, pageCode, isUrlValid, selectedAnalysis, pageTimers>>
    /\ UNCHANGED <<cacheVars, appVars, gwVars, themeVars, keyVars, hintVars, kbVars>>

\* Ctrl+Enter: if (canAnalyze && selectedAnalysis && !loading) handleAnalyze()
CtrlEnter ==
    /\ layout # "closed"
    /\ Len(pageCalls) + Len(pageTimers) < MaxPending
    /\ IF CanAnalyze(isUrlValid, pageCode) /\ selectedAnalysis # Null /\ ~pageLoading
       THEN /\ StartAnalyze(Render)
            /\ submittedCode' = pageCode
       ELSE UNCHANGED <<pageLoading, pageError, pageResult, pageCalls, submittedCode>>
    /\ lastClick' = NoClick
    /\ UNCHANGED <<layout, pageCode, isUrlValid, selectedAnalysis, pageTimers>>
    /\ UNCHANGED <<cacheVars, appVars, gwVars, themeVars, keyVars, hintVars, kbVars>>

\* an analysis button (disabled={!canAnalyze || loading}):
\* handleAnalysisSelect(type); if (canAnalyze) handleAnalyze()
ClickAnalysisButton ==
    /\ layout = "analysisButtons"
    /\ Len(pageCalls) + Len(pageTimers) < MaxPending
    /\ ~(~CanAnalyze(isUrlValid, pageCode) \/ pageLoading)
    /\ \E type \in PageTypes :
        /\ selectedAnalysis' = type
        /\ IF PassesGuard(Render)
           THEN /\ pageLoading' = TRUE
                /\ pageError' = FALSE
                /\ pageResult' = NoPageResult
                /\ pageCalls' = Append(pageCalls, [code |-> Render.code, type |-> Render.type])
           ELSE /\ pageResult' = NoPageResult
                /\ pageError' = FALSE
                /\ UNCHANGED <<pageLoading, pageCalls>>
        /\ lastClick' = [type |-> type, started |-> PassesGuard(Render),
                         requestType |-> IF PassesGuard(Render) THEN Render.type ELSE Null]
    /\ submittedCode' = pageCode
    /\ UNCHANGED <<layout, pageCode, isUrlValid, pageTimers>>
    /\ UNCHANGED <<cacheVars, appVars, gwVars, themeVars, keyVars, hintVars, kbVars>>

\* handleHistoryEntrySelect
HandleHistoryEntrySelect ==
    /\ layout # "closed"
    /\ \E entry \in HistoryEntries :
        /\ pageCode' = entry.code
        /\ selectedAnalysis' = entry.analysis_type
        /\ pageResult' = [code |-> entry.code, type |-> entry.analysis_type]
        /\ submittedCode' = entry.code
    /\ isUrlValid' = TRUE
    /\ pageError' = FALSE
    /\ lastClick' = NoClick
    /\ UNCHANGED <<layout, pageLoading, pageCalls, pageTimers>>
    /\ UNCHANGED <<cacheVars, appVars, gwVars, themeVars, keyVars, hintVars, kbVars>>

\* handleRerunAnalysis: the timer it sets calls the handleAnalyze of the render
\* that handleRerunAnalysis itself belongs to
HandleRerunAnalysis ==
    /\ layout # "closed"
    /\ Len(pageCalls) + Len(pageTimers) < MaxPending
    /\ \E entry \in HistoryEntries :
        /\ pageCode' = entry.code
        /\ selectedAnalysis' = entry.analysis_type
        /\ submittedCode' = entry.code
    /\ isUrlValid' = TRUE
    /\ pageResult' = NoPageResult
    /\ pageError' = FALSE
    /\ pageTimers' = Append(pageTimers, Render)
    /\ lastClick' = NoClick
    /\ UNCHANGED <<layout, pageLoading, pageCalls>>
    /\ UNCHANGED <<cacheVars, appVars, gwVars, themeVars, keyVars, hintVars, kbVars>>

\* the 100 ms timer of handleRerunAnalysis fires: handleAnalyze()
RerunTimerFires ==
    /\ pageTimers # <<>>
    /\ StartAnalyze(Head(pageTimers))
    /\ pageTimers' = Tail(pageTimers)
    /\ lastClick' = NoClick
    /\ UNCHANGED <<layout, pageCode, isUrlValid, selectedAnalysis, submittedCode>>
    /\ UNCHANGED <<cacheVars, appVars, gwVars, themeVars, keyVars, hintVars, kbVars>>

\* a call of handleAnalyze comes back from its awaits and returns: with the
\* cached or fetched result of its code and type, or with the error message
AnalyzeSettles ==
    /\ \E i \in DOMAIN pageCalls, ok \in BOOLEAN :
        /\ IF ok
           THEN /\ pageResult' = [code |-> pageCalls[i].code, type |-> pageCalls[i].type]
                /\ UNCHANGED pageError
           ELSE /\ pageError' = TRUE
                /\ UNCHANGED pageResult
        /\ pageCalls' = [j \in 1..(Len(pageCalls) - 1) |->
                            IF j < i THEN pageCalls[j] ELSE pageCalls[j + 1]]
    /\ pageLoading' = FALSE
    /\ lastClick' = NoClick
    /\ UNCHANGED <<layout, pageCode, isUrlValid, selectedAnalysis, pageTimers,
                   submittedCode>>
    /\ UNCHANGED <<cacheVars, appVars, gwVars, themeVars, keyVars, hintVars, kbVars>>

PageNext ==
    \/ PageOpen
    \/ HandleUrlChange
    \/ HandleCodeChange
    \/ HandleAnalysisSelect
    \/ ClickAnalyze
    \/ CtrlEnter
    \/ ClickAnalysisButton
    \/ HandleHistoryEntrySelect
    \/ HandleRerunAnalysis
    \/ RerunTimerFires
    \/ AnalyzeSettles


----------------------------------------------------------------------------
(* The specifications *)

Init == CacheInit /\ AppInit /\ GwInit /\ ThemeInit /\ KeysInit /\ HintsInit /\ KbInit /\ PageInit

SpecCache == Init /\ [][CacheNext]_vars

SpecAnalyze == Init /\ [][AnalyzeNext]_vars

SpecGateway == Init /\ [][GatewayNext]_vars

SpecTheme == Init /\ [][ThemeNext]_vars

SpecKeys == Init /\ [][KeysNext]_vars

SpecHints == Init /\ [][HintsNext]_vars

SpecKeyboard == Init /\ [][KeyboardNext]_vars

SpecPage == Init /\ [][PageNext]_vars

----------------------------------------------------------------------------
(* C1: the cache never returns an expired entry: a value that getEntry     *)
(* returns was put less than ttl before the query (age >= ttl is absent).  *)
C1_NeverReturnsExpired ==
    (op = "get" /\ got.value # Null) => got.at - got.putAt < ANALYSIS_TTL

----------------------------------------------------------------------------
(* The outcome classes of a provider call (spec 4.1), read off a response:  *)
(* transport failure or timeout -> transient; 429 or an advertised          *)
(* retry-after -> rateLimited; 5xx -> transient; an unparseable body, and   *)
(* any other refusal (bad request, authentication) -> permanent.            *)
Classify(resp) ==
    IF resp.thrown THEN "transient"
    ELSE IF ResponseOk(resp) THEN (IF resp.parses THEN "success" ELSE "permanent")
    ELSE IF resp.status = 429 \/ resp.retry_after # 0 THEN "rateLimited"
    ELSE IF resp.status >= 500 THEN "transient"
    ELSE "permanent"

\* RetryPolicy's configuration (spec 4.2), in ms
BackoffBase == 1000
BackoffMultiplier == 2
DefaultRetryAfter == 60

Backoff(attempt) == BackoffBase * BackoffMultiplier ^ (attempt - 1)

Max(a, b) == IF a >= b THEN a ELSE b

\* w is e give or take half of e
WithinJitter(w, e) == 2 * (IF w >= e THEN w - e ELSE e - w) <= e

HandlerEnded == hPc = "done" /\ attempts # <<>>

(* C4: an attempt whose outcome is permanent is the last one of the call:  *)
(* nothing is awaited after it, no further fetch follows, and the failure  *)
(* is handed on at once (the handler ends with that error).                *)
C4_PermanentNotRetried ==
    \A i \in 1..Len(attempts) :
        Classify(attempts[i]) = "permanent" =>
            /\ i = Len(attempts)
            /\ Len(waits) = i - 1
            /\ hPc = "done"
            /\ ~loading
            /\ error = ShownError(attempts[i], i - 1)

C4_Witness ==
    /\ HandlerEnded
    /\ Len(attempts) = 1
    /\ Classify(attempts[1]) = "permanent"
    /\ waits = <<>>

(* C5: one call makes at most maxRetries + 1 = 3 fetches; a fetch is       *)
(* followed by a wait and another fetch only after a transient or          *)
(* rateLimited outcome; and the call ends with the outcome of its last     *)
(* fetch: its result on success, its error otherwise.                      *)
C5_BoundedRetries ==
    /\ Len(attempts) <= maxRetries + 1
    /\ Len(waits) <= maxRetries
    /\ Len(waits) = (IF hPc \in {"wait", "fetch"} \/ attempts = <<>>
                     THEN Len(attempts) ELSE Len(attempts) - 1)
    /\ \A i \in 1..Len(waits) :
            Classify(attempts[i]) \in {"transient", "rateLimited"}
    /\ hPc = "complete" =>
            /\ Succeeds(attempts[Len(attempts)])
            /\ pending = attempts[Len(attempts)].body
    /\ HandlerEnded =>
            IF Succeeds(attempts[Len(attempts)])
            THEN analysisResult = attempts[Len(attempts)].body /\ error = NoShownError
            ELSE analysisResult = Null /\ error.from = attempts[Len(attempts)]

C5_Witness ==
    /\ HandlerEnded
    /\ Len(attempts) = maxRetries + 1
    /\ Classify(attempts[1]) = "transient"
    /\ Classify(attempts[2]) = "rateLimited"
    /\ Classify(attempts[3]) = "transient"
    /\ error.from = attempts[3]

(* C6: when every outcome of the call is transient, the waits before the   *)
(* retries do not decrease and the wait after attempt a is                 *)
(* base * multiplier^(a-1), within jitter (1 s, 2 s, ...).                 *)
C6_ExponentialBackoff ==
    (\A i \in 1..Len(attempts) : Classify(attempts[i]) = "transient") =>
        \A a \in 1..Len(waits) :
            /\ WithinJitter(waits[a], Backoff(a))
            /\ a > 1 => waits[a - 1] <= waits[a]

(* C7: the wait after a rateLimited(n) attempt a is                        *)
(* max(n, base * multiplier^(a-1)), n being the advertised retry-after     *)
(* (60 s when none is sent).                                               *)
C7_RateLimitedWait ==
    \A a \in 1..Len(waits) :
        Classify(attempts[a]) = "rateLimited" =>
            waits[a] = Max(1000 * (IF attempts[a].retry_after # 0
                                   THEN attempts[a].retry_after
                                   ELSE DefaultRetryAfter),
                           Backoff(a))

----------------------------------------------------------------------------
(* Claims about the endpoint *)

GatedTypes == {"complexity", "optimization", "debugging"}

\* the request missed the cache and step 2 has run
PastGate == gwGate # "none"

\* the last attempt against a provider: the retry policy gave up on it
GaveUp(call) ==
    \/ call.outcome = "permanent"
    \/ call.outcome \in {"transient", "rateLimited"} /\ call.attempt = MaxAttempts

(* C2: a complexity, optimization or debugging request whose code the      *)
(* completeness check classifies as incomplete is answered with the        *)
(* incomplete-solution notice, and no provider is called for the analysis. *)
C2_GatedKindShortCircuit ==
    (gwReq.type \in GatedTypes /\ gwReq.answer = "incomplete" /\ PastGate) =>
        /\ gwResult = IncompleteSolutionNotice(gwReq.type)
        /\ gwLog = <<>>
        /\ gwPc = "done"

C2_Witness ==
    /\ gwReq.type = "complexity"
    /\ gwReq.answer = "incomplete"
    /\ gwGate = "incomplete"
    /\ gwPc = "done"
    /\ gwResult.type = "incomplete_solution"

(* C3, as stated: every hints request reaches a provider.                  *)
C3_HintsAlwaysReachProvider ==
    (gwReq.type = "hints" /\ gwPc = "done") => gwLog # <<>>

(* C3, amended: a hints request is never put to the completeness check and *)
(* never answered with the incomplete-solution notice, whatever the code;  *)
(* when its cache lookup misses it reaches a provider.                     *)
C3_HintsNeverGated ==
    gwReq.type = "hints" =>
        /\ gwGate \in {"none", "skipped"}
        /\ gwResult.type # "incomplete_solution"
        /\ (PastGate /\ gwPc \in {"populate", "done"}) => gwLog # <<>>
        /\ gwLog # <<>> => gwLog[1].provider = 1

C3_Witness ==
    /\ gwReq.type = "hints"
    /\ gwReq.answer = "incomplete"
    /\ gwPc = "done"
    /\ gwLog # <<>>
    /\ gwResult = AnalysisOf("hints")

(* C8: the providers are consulted in one walk in the configured order:    *)
(* the first call goes to the primary, a call to the same provider follows *)
(* only a retryable failure, a call to another provider goes to the next   *)
(* one in the order and only after the retry policy gave up on the one     *)
(* before; nothing follows a success.                                      *)
C8_LinearWalk ==
    /\ gwLog # <<>> => (gwLog[1].provider = 1 /\ gwLog[1].attempt = 1)
    /\ \A i \in 1..Len(gwLog) : gwLog[i].provider \in 1..Len(ProviderOrder)
    /\ \A i \in 1..(Len(gwLog) - 1) :
        LET a == gwLog[i]
            b == gwLog[i + 1]
        IN  IF b.provider = a.provider
            THEN /\ b.attempt = a.attempt + 1
                 /\ a.outcome \in {"transient", "rateLimited"}
                 /\ a.attempt < MaxAttempts
            ELSE /\ b.provider = a.provider + 1
                 /\ b.attempt = 1
                 /\ GaveUp(a)

C8_Witness ==
    /\ gwPc = "done"
    /\ Len(gwLog) = MaxAttempts + 1
    /\ gwLog[1].outcome = "rateLimited"
    /\ gwLog[MaxAttempts].provider = 1
    /\ gwLog[MaxAttempts + 1].provider = 2
    /\ gwLog[MaxAttempts + 1].outcome = "success"

(* C9: the only failure the caller receives is AllProvidersExhausted; it   *)
(* is returned only when the retry policy gave up on every configured      *)
(* provider, and it carries the classification of the last failure.        *)
C9_OnlyExhaustionSurfaces ==
    /\ gwResult.type \in {"none", "analysis", "incomplete_solution", "AllProvidersExhausted"}
    /\ gwResult.type = "AllProvidersExhausted" =>
        /\ gwPc = "done"
        /\ \A p \in 1..Len(ProviderOrder) :
                \E i \in 1..Len(gwLog) : gwLog[i].provider = p /\ GaveUp(gwLog[i])
        /\ \A i \in 1..Len(gwLog) : gwLog[i].outcome # "success"
        /\ gwResult.classification = gwLog[Len(gwLog)].outcome
    /\ (gwPc = "done" /\ gwLog # <<>> /\ gwLog[Len(gwLog)].outcome # "success") =>
            gwResult.type = "AllProvidersExhausted"

C9_Witness ==
    /\ gwResult.type = "AllProvidersExhausted"
    /\ gwLog[1].outcome = "transient"
    /\ gwResult.classification = "permanent"

(* C10: when the completeness check itself fails, nothing of that failure  *)
(* reaches the caller and the request goes on as a complete one does: to   *)
(* the provider walk, starting at the primary.                             *)
C10_GateFailOpen ==
    (gwReq.answer = "error" /\ PastGate) =>
        /\ gwPc \in {"walk", "populate", "done"}
        /\ gwResult.type \in {"none", "analysis", "AllProvidersExhausted"}
        /\ gwPc = "done" => gwLog # <<>>
        /\ gwLog # <<>> => gwLog[1].provider = 1
        /\ gwResult.type = "analysis" => gwResult = AnalysisOf(gwReq.type)

C10_Witness ==
    /\ gwReq.type = "debugging"
    /\ gwReq.answer = "error"
    /\ gwGate = "error"
    /\ gwPc = "done"
    /\ gwResult = AnalysisOf("debugging")

----------------------------------------------------------------------------
(* Claims about what the cache holds and when it is consulted *)

(* C11: the cache is written only with a successful analysis result: no    *)
(* entry ever holds an incomplete-solution notice (nor anything of a       *)
(* failed request).                                                        *)
C11_OnlySuccessCached ==
    \A k \in DOMAIN storage : storage[k].value = "analysis"

(* C12: when the lookup finds an entry the call returns it at once: in    *)
(* the step that finds it and in every step up to the return the cache is  *)
(* not written and no request is sent (so neither the completeness check   *)
(* nor a provider runs for it); the result shown is the entry found.       *)
C12_HitReturnsImmediately ==
    [][ /\ (hPc # "cacheHit" /\ hPc' = "cacheHit") =>
                /\ storage' = storage
                /\ attempts' = <<>>
                /\ waits' = <<>>
                /\ pending' = storage[AnalysisKey(hReq'.slug, hReq'.code, "python",
                                                  hReq'.type)].value
        /\ hPc = "cacheHit" =>
                /\ storage' = storage
                /\ attempts' = <<>>
                /\ hPc' \in {"cacheHit", "done"}
                /\ hPc' = "done" => (analysisResult' = pending /\ error' = NoShownError)
      ]_vars

C12_Witness ==
    /\ hPc = "done"
    /\ runs = 2
    /\ attempts = <<>>
    /\ analysisResult = "analysis"
    /\ ~loading
    /\ storage # <<>>

(* C20: the page looks in its cache before it asks the API: when a request *)
(* has been sent, the call had looked up the same problem, code, language  *)
(* and analysis type first; and a call that found an entry sends none.     *)
C20_LookupBeforeRequest ==
    /\ attempts # <<>> => lookedUp = hReq
    /\ hPc = "cacheHit" => attempts = <<>>

(* C13: a value put under a key is what a get of that key returns while    *)
(* less than ttl has passed since the put (no other put in between).       *)
C13_PutThenGet ==
    [][ (/\ op = "put"
         /\ op' = "get"
         /\ got'.key = got.key
         /\ got'.at - got.putAt < ANALYSIS_TTL) => got'.value = got.value ]_vars

\* the keys of the entries that a get at time t would still return
LiveKeys(store, t) == {k \in DOMAIN store : ~IsExpired(store[k], t)}

\* the capacity the entries are counted against
Capacity == 2

(* C14: the number of live (non-expired) entries never exceeds the         *)
(* capacity: a put that would exceed it evicts the oldest entry first.     *)
C14_CapacityBound ==
    Cardinality(LiveKeys(storage, now)) <= Capacity

(* C15: whatever the order in which the callers' puts and gets reach the   *)
(* shared cache, a get that hits returns a complete result that a put      *)
(* stored under that key, and one that has not expired.                    *)
C15_HitIsStoredAndFresh ==
    (op = "get" /\ got.value # Null) =>
        /\ got.value \in Values
        /\ got.key \in DOMAIN storage
        /\ storage[got.key].value = got.value
        /\ storage[got.key].timestamp = got.putAt
        /\ got.at - storage[got.key].timestamp < ANALYSIS_TTL

----------------------------------------------------------------------------
(* Claims about the theme *)

Opposite(t) == CHOOSE u \in Themes : u # t

(* C16: every activation of the toggle (click, Enter or Space) switches to *)
(* the opposite theme: after n activations from theme t the theme is t     *)
(* when n is even and the opposite of t when n is odd.                     *)
C16_ToggleInverts ==
    mounted =>
        /\ theme = (IF toggles % 2 = 0 THEN themeAtMount ELSE Opposite(themeAtMount))
        /\ toggles > 0 => activation \in Activations

C16_Witness ==
    /\ mounted
    /\ toggles = 3
    /\ activation = "Space"
    /\ themeAtMount = "dark"
    /\ theme = "light"

C18_InitialTheme ==
    mounted =>
        themeAtMount = (IF readOk /\ itemAtMount \in {"light", "dark"}
                        THEN itemAtMount
                        ELSE defaultTheme)

C18_Witness ==
    /\ mounted
    /\ toggles = 0
    /\ ~readOk
    /\ itemAtMount = "light"
    /\ defaultTheme = "dark"
    /\ theme = "dark"

(* C19: after the mount and after every toggle the document root has the   *)
(* 'dark' class if and only if the theme is 'dark'.                        *)
C19_RootClassReflectsTheme ==
    mounted => (rootDark <=> theme = "dark")

C19_Witness ==
    /\ mounted
    /\ toggles = 2
    /\ themeAtMount = "light"
    /\ theme = "light"
    /\ ~rootDark

----------------------------------------------------------------------------
(* C21: different codes are cached separately: what getAnalysis returns    *)
(* for a slug, code, language and type was stored by a setAnalysis with    *)
(* the same slug, code, language and type.                                 *)
C21_SeparateEntriesPerCode ==
    asked.value # Null =>
        LET key == AnalysisKey(asked.slug, asked.code, "python", asked.type)
        IN  /\ key \in DOMAIN storedFor
            /\ storedFor[key] = [slug |-> asked.slug, code |-> asked.code,
                                 type |-> asked.type]

----------------------------------------------------------------------------
VisibleHints(revealed) == {i \in 0..MaxHints : HintVisible(revealed, i)}

(* C22: in a hints result the first hint is visible from the start, and a  *)
(* hint or the Next Steps section that is visible stays visible: no step   *)
(* removes a hint from the visible ones or hides Next Steps again.         *)
C22_RevealIsMonotone ==
    /\ [](0 \in VisibleHints(revealedHints))
    /\ [][/\ VisibleHints(revealedHints) \subseteq VisibleHints(revealedHints')
          /\ nextStepsRevealed => nextStepsRevealed']_vars

C22_Witness ==
    /\ hintsShown
    /\ {1, 2} \subseteq revealedHints
    /\ nextStepsRevealed

----------------------------------------------------------------------------
\* the event is the plain key k, no Ctrl, Alt or Meta held
PlainKey(ev, k) == ev.key = k /\ ~ev.ctrl /\ ~ev.alt

(* C23: pressing Escape closes the open dialog: after an Escape keydown    *)
(* the shortcuts help is closed if it was open, and otherwise the history  *)
(* panel is closed if it was open.                                         *)
C23_EscapeClosesDialog ==
    (PlainKey(kbEvent, "Escape") /\ ~kbEvent.shift) =>
        IF helpBefore THEN ~showShortcutsHelp
        ELSE (historyBefore => ~showHistory)

(* C24: pressing ? while the focus is outside any input field shows the    *)
(* keyboard-shortcuts help: after such a keydown the help is open.         *)
C24_QuestionMarkShowsHelp ==
    (PlainKey(kbEvent, "?") /\ ~kbEvent.inInput) => showShortcutsHelp

----------------------------------------------------------------------------
(* C25: whenever an analysis result is displayed, it was produced for the  *)
(* currently selected analysis type and for the code submitted last, also  *)
(* when the type is changed or a history entry is loaded while a request   *)
(* is in flight.                                                           *)
C25_ResultMatchesSelection ==
    pageResult # NoPageResult =>
        /\ pageResult.type = selectedAnalysis
        /\ pageResult.code = submittedCode

(* C26: a click on an analysis button while canAnalyze holds starts an     *)
(* analysis, and the request it sends carries the clicked type, whatever   *)
(* was selected before the click.                                          *)
C26_ButtonAnalyzesClickedType ==
    lastClick.type # Null =>
        /\ lastClick.started
        /\ lastClick.requestType = lastClick.type

(* C27: at most one analysis is in flight at any time: no trigger starts   *)
(* a further handleAnalyze call while one is awaiting its result.          *)
C27_AtMostOneInFlight ==
    Len(pageCalls) <= 1

----------------------------------------------------------------------------
\* exactly one of analysisResult and error is set
ExactlyOneShown(result, err) ==
    \/ result # NoPageResult /\ ~err
    \/ result = NoPageResult /\ err

(* C28: every call of handleAnalyze that passed its guard returns (after   *)
(* at most maxRetries + 1 requests) with loading false and exactly one of  *)
(* analysisResult and error set: the step in which a call returns leaves   *)
(* the page in such a state.                                               *)
C28_CallEndsWithOneOutcome ==
    [][Len(pageCalls') < Len(pageCalls) =>
         /\ ~pageLoading'
         /\ ExactlyOneShown(pageResult', pageError')]_vars

====
